---- MODULE Spec2Model ----
(***************************************************************************)
(* A model of gitgitlab/client.py: the resolution of the GitLab server URL *)
(* from the git configuration, and GitlabClient, which looks projects up   *)
(* on the server, creates them, and attaches them as remotes of the        *)
(* checkout in the current directory.                                      *)
(*                                                                         *)
(* Python strings that the code takes apart (project names, clone URLs)    *)
(* are sequences of one-character strings; strings the code only compares  *)
(* (remote names, branches, tokens, configured server URLs) are TLA+       *)
(* strings, with "" the empty string.  A call returns a record             *)
(* [exc, val, trace]: exc is "" on a normal return and the name of the     *)
(* raised exception otherwise, trace lists the collaborator calls made.    *)
(***************************************************************************)
EXTENDS Integers, Sequences, FiniteSets, TLC

VARIABLES
    config,     \* git configuration: file -> value of gitlab.url, or NoValue
    isRepo,     \* whether the current directory is a git checkout
    userLevel,  \* whether the installed GitPython's Repo reads the XDG file
    url,        \* GitlabClient._url
    gitlab,     \* GitlabClient._gitlab: None, or the session [token |-> t]
    projects,   \* the server's list of the projects the user owns
    remotes,    \* the remotes of the checkout, in configuration order
    pushes,     \* the pushes made so far: a set of [remote, branch]
    authed,     \* history: a login has returned normally
    input,      \* the argument of the pure function under study
    last        \* the last call: [op, args, exc, val, trace]

vars == <<config, isRepo, userLevel, url, gitlab, projects, remotes, pushes,
          authed, input, last>>

\* ------------------------------------------------------------------ bounds

\* The server holds at most this many projects (create_project is disabled beyond).
MaxProjects == 2
\* A clone URL of the input set has at most this many path segments before the name.
MaxSegs == 2

\* ----------------------------------------------------------------- strings

None == "None"
NoValue == "NoValue"

STR_git == <<"g", "i", "t">>
STR_dotgit == <<".", "g", "i", "t">>

EndsWith(s, suf) ==
    /\ Len(s) >= Len(suf)
    /\ SubSeq(s, Len(s) - Len(suf) + 1, Len(s)) = suf

IsSpace(c) == c \in {" ", "\t", "\n"}

SetMin(S) == CHOOSE x \in S : \A y \in S : x <= y
SetMax(S) == CHOOSE x \in S : \A y \in S : x >= y

Ret(v, t) == [exc |-> "", val |-> v, trace |-> t]
Raise(e, t) == [exc |-> e, val |-> None, trace |-> t]

\* ------------------------------------------------ get_project_name_from_url

\* The ends k of the group (\S+) for a match of /(\S+).git that starts at i:
\* url[i+1..k] holds no whitespace, url[k+1] is any character but a newline,
\* and url[k+2..k+4] is "git".
GroupEnds(u, i) ==
    {k \in (i + 1)..Len(u) :
        /\ \A j \in (i + 1)..k : ~IsSpace(u[j])
        /\ k + 4 <= Len(u)
        /\ u[k + 1] # "\n"
        /\ SubSeq(u, k + 2, k + 4) = STR_git}

\* re.search(r'/(\S+).git', url): the leftmost start that matches, and for it
\* the longest group (\S+ is greedy).  matched is FALSE when nothing matches.
ReSearch(u) ==
    LET starts == {i \in 1..Len(u) : u[i] = "/" /\ GroupEnds(u, i) # {}}
    IN  IF starts = {} THEN [matched |-> FALSE, group |-> <<>>]
        ELSE LET i == SetMin(starts)
             IN  [matched |-> TRUE,
                  group |-> SubSeq(u, i + 1, SetMax(GroupEnds(u, i)))]

\* re.search(...).groups()[0]; a failed search returns None, which has no
\* groups(): AttributeError.
get_project_name_from_url(u) ==
    IF ReSearch(u).matched THEN Ret(ReSearch(u).group, <<>>)
    ELSE Raise("AttributeError", <<>>)

\* ----------------------------------------------------------- configuration

DEFAULT_GITLAB_URL == "https://gitlab.com"

ConfigFiles == {"system", "xdg", "home", "repo"}
ConfigValues == {NoValue, "https://one.example", "https://two.example"}

\* The files of get_global_config_parser, in reading order.
get_global_config_parser(read_only) ==
    IF ~read_only THEN <<"home">> ELSE <<"system", "xdg", "home">>

\* The files of repo.config_reader(): every level of the checkout's Repo, in
\* reading order.  GitPython reads system, global and repository; the "user"
\* (XDG) level exists only in the versions that define it.
repo_config_reader ==
    IF userLevel THEN <<"system", "xdg", "home", "repo">>
    ELSE <<"system", "home", "repo">>

\* A get_value in which the first file read that defines the value wins.
get_value_first_wins(files) ==
    LET defined == {i \in 1..Len(files) : config[files[i]] # NoValue}
    IN  IF defined = {} THEN Raise("NoOptionError", <<>>)
        ELSE Ret(config[files[SetMin(defined)]], <<>>)

\* GitConfigParser.get_value('gitlab', 'url') over the files read in order: a
\* later file overrides an earlier one; no file defining it is NoOptionError
\* (or NoSectionError).
get_value(files) ==
    LET defined == {i \in 1..Len(files) : config[files[i]] # NoValue}
    IN  IF defined = {} THEN Raise("NoOptionError", <<>>)
        ELSE Ret(config[files[SetMax(defined)]], <<>>)

get_custom_gitlab_url ==
    LET config_reader == IF ~isRepo THEN get_global_config_parser(TRUE)
                         ELSE repo_config_reader
        r == get_value(config_reader)
    IN  IF r.exc \in {"NoOptionError", "NoSectionError"}
        THEN Raise("NotFound", <<>>)
        ELSE r

get_gitlab_url ==
    IF get_custom_gitlab_url.exc = "NotFound" THEN Ret(DEFAULT_GITLAB_URL, <<>>)
    ELSE get_custom_gitlab_url

\* ------------------------------------------------------------ GitlabClient

ValidTokens == {"good"}
Tokens == {"good", "bad"}

ExcProjectExists == "GitlabException: Project already exists."
ExcRemoteExists == "GitlabException: Remote name already exists."
ExcInvalidRemote == "GitlabException: Invalid remote name"

\* The clone URLs the server gives a project it creates under the user's
\* namespace.
SshUrl(name) == <<"g", "@", "h", ":", "u", "/">> \o name \o STR_dotgit
HttpUrl(name) == <<"h", ":", "/", "/", "h", "/", "u", "/">> \o name \o STR_dotgit

\* self._gitlab.Project({...}) followed by project.save(): the entity the
\* server persists.
NewProject(name, wiki_enabled, public) ==
    [name |-> name, wiki_enabled |-> wiki_enabled, public |-> public,
     ssh_url_to_repo |-> SshUrl(name), http_url_to_repo |-> HttpUrl(name)]

\* self._gitlab.owned_projects(per_page=1000).  Before any login _gitlab is
\* None; a session built from a token the server rejects gets no list.
get_projects ==
    IF gitlab = None THEN Raise("AttributeError", <<>>)
    ELSE IF gitlab \notin ValidTokens
         THEN Raise("GitlabListError", <<"owned_projects">>)
         ELSE Ret(projects, <<"owned_projects">>)

\* A get_remote whose scan never matches.
get_remote_no_match(name) ==
    IF ~isRepo THEN Raise("InvalidGitRepositoryError", <<"Repo">>)
    ELSE Raise("NotFound", <<"Repo", "remotes">>)

get_remote(name) ==
    IF ~isRepo THEN Raise("InvalidGitRepositoryError", <<"Repo">>)
    ELSE LET hits == {i \in 1..Len(remotes) : remotes[i].name = name}
         IN  IF hits = {} THEN Raise("NotFound", <<"Repo", "remotes">>)
             ELSE Ret(remotes[SetMin(hits)], <<"Repo", "remotes">>)

get_gitlab_remote == get_remote("gitlab")

\* A get_project_name that reports a missing gitlab remote as an error of its
\* own kind instead of letting NotFound through.
get_project_name_no_remote_is_error ==
    LET remote == get_gitlab_remote
    IN  IF remote.exc = "NotFound" THEN Raise("GitlabException", remote.trace)
        ELSE IF remote.exc # "" THEN remote
        ELSE LET n == get_project_name_from_url(remote.val.url)
             IN  [n EXCEPT !.trace = remote.trace]

get_project_name ==
    LET remote == get_gitlab_remote
    IN  IF remote.exc # "" THEN remote
        ELSE LET n == get_project_name_from_url(remote.val.url)
             IN  [n EXCEPT !.trace = remote.trace]

\* The scan of get_project over the fetched list: the first project of that name.
FindProject(name, trace) ==
    LET ps == get_projects
        t == trace \o ps.trace
        hits == {i \in 1..Len(ps.val) : ps.val[i].name = name}
    IN  IF ps.exc # "" THEN Raise(ps.exc, t)
        ELSE IF hits = {} THEN Raise("NotFound", t)
             ELSE Ret(ps.val[SetMin(hits)], t)

get_project(name) ==
    IF name = <<>>
    THEN LET derived == get_project_name
         IN  IF derived.exc # ""
             THEN Raise(derived.exc, <<"get_project">> \o derived.trace)
             ELSE FindProject(derived.val, <<"get_project">> \o derived.trace)
    ELSE FindProject(name, <<"get_project">>)

\* create_project: the call's result and the server's project list after it.
create_project(name, wiki_enabled, public) ==
    LET found == get_project(name)
        same(r) == [exc |-> r.exc, val |-> r.val, trace |-> r.trace,
                    projects |-> projects]
    IN  IF found.exc = "" THEN same(Raise(ExcProjectExists, found.trace))
        ELSE IF found.exc # "NotFound" THEN same(found)
        ELSE IF gitlab = None THEN same(Raise("AttributeError", found.trace))
        ELSE IF gitlab \notin ValidTokens
             THEN same(Raise("GitlabCreateError", found.trace \o <<"save">>))
             ELSE [exc |-> "",
                   val |-> NewProject(name, wiki_enabled, public),
                   trace |-> found.trace \o <<"save">>,
                   projects |->
                       Append(projects, NewProject(name, wiki_enabled, public))]

\* An end of track that consults no_push before pushing.
create_and_push_unless_no_push(remote, branch, no_push, pushFails, t) ==
    IF no_push
    THEN [exc |-> "", val |-> remote, trace |-> t \o <<"create_remote">>,
          remotes |-> Append(remotes, remote), pushes |-> pushes]
    ELSE IF pushFails
    THEN [exc |-> "GitCommandError", val |-> None,
          trace |-> t \o <<"create_remote", "push">>,
          remotes |-> Append(remotes, remote), pushes |-> pushes]
    ELSE [exc |-> "", val |-> remote,
          trace |-> t \o <<"create_remote", "push">>,
          remotes |-> Append(remotes, remote),
          pushes |-> pushes \cup {[remote |-> remote.name, branch |-> branch]}]

\* An end of track that removes the remote again when the push raises.
create_and_push_rollback(remote, branch, no_push, pushFails, t) ==
    IF pushFails
    THEN [exc |-> "GitCommandError", val |-> None,
          trace |-> t \o <<"create_remote", "push">>,
          remotes |-> remotes, pushes |-> pushes]
    ELSE [exc |-> "", val |-> remote,
          trace |-> t \o <<"create_remote", "push">>,
          remotes |-> Append(remotes, remote),
          pushes |-> pushes \cup {[remote |-> remote.name, branch |-> branch]}]

\* The end of track: repo.create_remote, then remote.push(branch,
\* set_upstream=True), whatever no_push is.  The remote stays when the push
\* raises.  pushFails is the outcome of remote.push.
create_and_push(remote, branch, no_push, pushFails, t) ==
    IF pushFails
    THEN [exc |-> "GitCommandError", val |-> None,
          trace |-> t \o <<"create_remote", "push">>,
          remotes |-> Append(remotes, remote), pushes |-> pushes]
    ELSE [exc |-> "", val |-> remote,
          trace |-> t \o <<"create_remote", "push">>,
          remotes |-> Append(remotes, remote),
          pushes |-> pushes \cup {[remote |-> remote.name, branch |-> branch]}]

\* track: the call's result, and the checkout's remotes and the pushes after it.
track(project_name, branch, remote_name, no_push, pushFails) ==
    LET project == get_project(project_name)
        t1 == project.trace \o <<"Repo">>
        t2 == t1 \o <<"check_remote_name">>
        existing == get_remote(remote_name)
        t3 == t2 \o <<"get_remote">>
        remote == [name |-> remote_name, url |-> project.val.ssh_url_to_repo]
        fail(e, t) == [exc |-> e, val |-> None, trace |-> t,
                       remotes |-> remotes, pushes |-> pushes]
    IN  IF project.exc # "" THEN fail(project.exc, project.trace)
        ELSE IF ~isRepo THEN fail("InvalidGitRepositoryError", t1)
        ELSE IF remote_name = "" THEN fail(ExcInvalidRemote, t2)
        ELSE IF existing.exc = "" THEN fail(ExcRemoteExists, t3)
        ELSE IF existing.exc # "NotFound" THEN fail(existing.exc, t3)
        ELSE create_and_push(remote, branch, no_push, pushFails, t3)

\* A strip that drops the last four characters without looking at them.
StripGit_unchecked(u) == SubSeq(u, 1, Len(u) - 4)

\* url[:-4] when url.endswith('.git').
StripGit(u) ==
    IF EndsWith(u, STR_dotgit) THEN SubSeq(u, 1, Len(u) - 4) ELSE u

get_project_page(name) ==
    LET project == get_project(name)
    IN  IF project.exc # "" THEN project
        ELSE Ret(StripGit(project.val.http_url_to_repo), project.trace)

\* What self._gitlab.auth() gets from the server: a rejected token is a 401,
\* and any token can meet a failure that is not one.
AuthResponses(token) ==
    IF token \in ValidTokens THEN {"200", "500"} ELSE {"401", "500"}

\* login: the exception of the call.
login(response) ==
    IF response = "200" THEN ""
    ELSE IF response = "401" THEN "Unauthorized"
         ELSE "AuthenticationError"

\* ------------------------------------------------------------------ inputs

Names == {<<>>, <<"p">>, <<"q">>}
RemoteNames == {"", "gitlab", "origin"}
Branches == {"master"}
\* (wiki_enabled, public) of a create_project call: the defaults.
Flags == {[wiki_enabled |-> FALSE, public |-> FALSE]}

\* Projects the user may own before the first call.  The server's HTTP clone
\* URL of ProjQ does not end in .git, that of ProjQ2 ends in .git.git.
ProjP == NewProject(<<"p">>, FALSE, FALSE)
ProjQ == [NewProject(<<"q">>, TRUE, FALSE) EXCEPT
             !.http_url_to_repo = <<"h", ":", "/", "/", "h", "/", "u", "/", "q">>]
ProjQ2 == [NewProject(<<"q">>, FALSE, TRUE) EXCEPT
             !.http_url_to_repo = HttpUrl(<<"q">>) \o STR_dotgit]
InitProjects == {<<>>, <<ProjP>>, <<ProjP, ProjQ>>, <<ProjQ2>>}

\* Remotes the checkout may have before the first call: none, a gitlab remote
\* tracking project p, a gitlab remote whose URL has no /<name>.git, an origin.
InitRemotes ==
    {<<>>,
     <<[name |-> "gitlab", url |-> SshUrl(<<"p">>)]>>,
     <<[name |-> "gitlab", url |-> <<"g", "@", "h", ":", "p">>]>>,
     <<[name |-> "origin", url |-> SshUrl(<<"q">>)]>>}

Call(op, args, r) ==
    [op |-> op, args |-> args, exc |-> r.exc, val |-> r.val, trace |-> r.trace]

NoArgs == [none |-> TRUE]

NoCall == Call("", NoArgs, Ret(None, <<>>))

\* ----------------------------------------------------------------- actions

Login ==
    \E token \in Tokens : \E response \in AuthResponses(token) :
        /\ gitlab' = token
        /\ authed' = (authed \/ login(response) = "")
        /\ last' = Call("login", [token |-> token],
                        [exc |-> login(response), val |-> None,
                         trace |-> <<"auth">>])
        /\ UNCHANGED <<config, isRepo, userLevel, url, projects, remotes,
                       pushes, input>>

GetProjects ==
    /\ last' = Call("get_projects", NoArgs, get_projects)
    /\ UNCHANGED <<config, isRepo, userLevel, url, gitlab, projects, remotes,
                   pushes, authed, input>>

GetProject ==
    \E name \in Names :
        /\ last' = Call("get_project", [name |-> name], get_project(name))
        /\ UNCHANGED <<config, isRepo, userLevel, url, gitlab, projects,
                       remotes, pushes, authed, input>>

CreateProject ==
    \E name \in Names, flags \in Flags :
        LET r == create_project(name, flags.wiki_enabled, flags.public)
        IN  /\ Len(projects) < MaxProjects
            /\ projects' = r.projects
            /\ last' = Call("create_project", [name |-> name], r)
            /\ UNCHANGED <<config, isRepo, userLevel, url, gitlab, remotes,
                           pushes, authed, input>>

Track ==
    \E project_name \in Names, branch \in Branches,
       remote_name \in RemoteNames, no_push \in BOOLEAN, pushFails \in BOOLEAN :
        LET r == track(project_name, branch, remote_name, no_push, pushFails)
        IN  /\ remotes' = r.remotes
            /\ pushes' = r.pushes
            /\ last' = Call("track",
                            [project_name |-> project_name, branch |-> branch,
                             remote_name |-> remote_name, no_push |-> no_push],
                            r)
            /\ UNCHANGED <<config, isRepo, userLevel, url, gitlab, projects,
                           authed, input>>

GetProjectPage ==
    \E name \in Names :
        /\ last' = Call("get_project_page", [name |-> name],
                        get_project_page(name))
        /\ UNCHANGED <<config, isRepo, userLevel, url, gitlab, projects,
                       remotes, pushes, authed, input>>

\* The state after GitlabClient(url): no session yet.
Init ==
    /\ config = [f \in ConfigFiles |-> NoValue]
    /\ userLevel = TRUE
    /\ url = DEFAULT_GITLAB_URL
    /\ gitlab = None
    /\ authed = FALSE
    /\ isRepo \in BOOLEAN
    /\ projects \in InitProjects
    /\ remotes \in (IF isRepo THEN InitRemotes ELSE {<<>>})
    /\ pushes = {}
    /\ input = <<>>
    /\ last = NoCall

Next ==
    \/ Login
    \/ GetProjects
    \/ GetProject
    \/ CreateProject
    \/ Track
    \/ GetProjectPage

Spec == Init /\ [][Next]_vars

\* --------------------------------------------- the configuration resolver

ExplicitUrls == {None, "https://explicit.example"}

GetGitlabUrl ==
    /\ last' = Call("get_gitlab_url", NoArgs, get_gitlab_url)
    /\ UNCHANGED <<config, isRepo, userLevel, url, gitlab, projects, remotes,
                   pushes, authed, input>>

\* GitlabClient.__init__(url)
NewClient ==
    \E u \in ExplicitUrls :
        /\ url' = (IF u = None THEN get_gitlab_url.val ELSE u)
        /\ gitlab' = None
        /\ last' = Call("__init__", [url |-> u], Ret(None, <<>>))
        /\ UNCHANGED <<config, isRepo, userLevel, projects, remotes, pushes,
                       authed, input>>

\* Any configuration of the machine; only a checkout has a repository file.
InitConfig ==
    /\ isRepo \in BOOLEAN
    /\ userLevel \in BOOLEAN
    /\ config \in [ConfigFiles -> ConfigValues]
    /\ (~isRepo => config["repo"] = NoValue)
    /\ url = None
    /\ gitlab = None
    /\ authed = FALSE
    /\ projects = <<>>
    /\ remotes = <<>>
    /\ pushes = {}
    /\ input = <<>>
    /\ last = NoCall

NextConfig ==
    \/ GetGitlabUrl
    \/ NewClient

SpecConfig == InitConfig /\ [][NextConfig]_vars

\* ------------------------------------------------ the URL-name extraction

Flatten(segs) ==
    LET F[i \in 0..Len(segs)] ==
            IF i = 0 THEN <<>> ELSE F[i - 1] \o <<segs[i], "/">>
    IN  F[Len(segs)]

UrlPrefixes == {<<"g", "@", "h", ":">>, <<"h", ":", "/", "/", "h", "/">>}
UrlPaths == UNION {[1..k -> {"a", "b"}] : k \in 0..MaxSegs}
UrlNames == {<<"f">>, <<"f", "o">>}
UrlSuffixes == {STR_dotgit, <<>>, <<".", "g", "i", "t", "/">>}

\* Clone URLs: scp-like and https-like, with 0..MaxSegs path segments before
\* the name, ending in .git or not.
Urls ==
    {pre \o Flatten(path) \o name \o suf :
        pre \in UrlPrefixes, path \in UrlPaths, name \in UrlNames,
        suf \in UrlSuffixes}

GetProjectNameFromUrl ==
    /\ last' = Call("get_project_name_from_url", NoArgs,
                    get_project_name_from_url(input))
    /\ UNCHANGED <<config, isRepo, userLevel, url, gitlab, projects, remotes,
                   pushes, authed, input>>

InitUrl ==
    /\ input \in Urls
    /\ config = [f \in ConfigFiles |-> NoValue]
    /\ isRepo = FALSE
    /\ userLevel = TRUE
    /\ url = DEFAULT_GITLAB_URL
    /\ gitlab = None
    /\ authed = FALSE
    /\ projects = <<>>
    /\ remotes = <<>>
    /\ pushes = {}
    /\ last = NoCall

NextUrl == GetProjectNameFromUrl

SpecUrl == InitUrl /\ [][NextUrl]_vars

\* ------------------------------------------------------------------ claims

\* What a step can change, without the value a call returned (the call, its
\* arguments and its exception determine it): a step that changes none of
\* this is no step.
seen == <<last.op, last.args, last.exc, config, isRepo, userLevel, url, gitlab,
          projects, remotes, pushes, authed, input>>

Count(ps, n) == Cardinality({i \in 1..Len(ps) : ps[i].name = n})
RemoteUsed(rs, n) == \E i \in 1..Len(rs) : rs[i].name = n
UniqueRemoteNames(rs) ==
    \A i, j \in 1..Len(rs) : rs[i].name = rs[j].name => i = j
IsStep(x) ==
    x \in {"get_project", "check_remote_name", "get_remote", "create_remote",
           "push"}
\* The handle is Authenticated: a login has succeeded and the session works.
Authenticated == authed /\ gitlab \in ValidTokens
\* The first project of that name in the server's list.
FirstNamed(ps, n) == ps[SetMin({i \in 1..Len(ps) : ps[i].name = n})]

\* C1: on an authenticated client, of two create_project(n) calls in sequence
\* for a name n that no owned project had, the first returns a newly persisted
\* project named n, and the second signals AlreadyExists and changes nothing
\* on the server, so exactly one owned project is named n.
C1_CreateTwice ==
    [][(last'.op = "create_project" /\ Authenticated) =>
        LET n == last'.args.name
        IN  /\ (Count(projects, n) = 0 /\ last'.exc = "") =>
                /\ last'.val.name = n
                /\ Count(projects', n) = 1
            /\ (last.op = "create_project" /\ last.exc = ""
                    /\ last.args.name = n) =>
                /\ last'.exc = ExcProjectExists
                /\ projects' = projects
                /\ Count(projects', n) = 1]_seen

\* C1, for the names that are not empty: the first call returns the new
\* project, and the rest of the statement above holds.
C1_CreateTwiceNonEmpty ==
    [][(last'.op = "create_project" /\ gitlab \in ValidTokens
            /\ last'.args.name # <<>>) =>
        LET n == last'.args.name
        IN  /\ Count(projects, n) = 0 =>
                /\ last'.exc = ""
                /\ last'.val.name = n
                /\ Count(projects', n) = 1
            /\ (last.op = "create_project" /\ last.exc = ""
                    /\ last.args.name = n) =>
                /\ last'.exc = ExcProjectExists
                /\ projects' = projects
                /\ Count(projects', n) = 1]_seen

\* C2, as stated: on an authenticated client, a track call that names
\* its project and whose remote_name an existing remote uses signals AlreadyExists, creates no
\* remote, pushes nothing and leaves the remotes as they are; and no two
\* remotes share a name.
C2_TrackUsedNameSignalsExists ==
    [][(last'.op = "track" /\ Authenticated
            /\ last'.args.project_name # <<>>
            /\ RemoteUsed(remotes, last'.args.remote_name)) =>
        /\ last'.exc = ExcRemoteExists
        /\ remotes' = remotes
        /\ pushes' = pushes
        /\ UniqueRemoteNames(remotes')]_seen

\* C2, amended: a track call whose remote_name an existing remote uses fails,
\* creates no remote, pushes nothing and leaves the remotes as they are; it
\* signals AlreadyExists when the lookup of project_name succeeds, and the
\* error of that lookup, which comes first, otherwise; and after any track
\* call no two remotes share a name.
C2_TrackUsedNameFails ==
    [][(last'.op = "track") =>
        /\ UniqueRemoteNames(remotes')
        /\ RemoteUsed(remotes, last'.args.remote_name) =>
            LET lookup == get_project(last'.args.project_name)
            IN  /\ last'.exc = (IF lookup.exc = "" THEN ExcRemoteExists
                                ELSE lookup.exc)
                /\ remotes' = remotes
                /\ pushes' = pushes]_seen

\* C2 witness: a track call was refused because its remote_name is in use.
C2_Witness ==
    /\ last.op = "track"
    /\ last.exc = ExcRemoteExists
    /\ RemoteUsed(remotes, last.args.remote_name)

\* C3: get_gitlab_url never raises; it returns the checkout's own gitlab.url
\* when the current directory is a checkout that sets it, whatever the global
\* files say, and DEFAULT_GITLAB_URL when no file defines the key.
C3_LocalFirstDefaultLast ==
    last.op = "get_gitlab_url" =>
        /\ last.exc = ""
        /\ (isRepo /\ config["repo"] # NoValue) => last.val = config["repo"]
        /\ (\A f \in ConfigFiles : config[f] = NoValue) =>
               last.val = DEFAULT_GITLAB_URL

\* C3 witness: the URL was resolved in a checkout that sets gitlab.url while
\* the home-directory file sets another value.
C3_Witness ==
    /\ last.op = "get_gitlab_url"
    /\ isRepo
    /\ config["repo"] # NoValue
    /\ config["home"] # NoValue
    /\ config["home"] # config["repo"]

GlobalFiles == {"system", "xdg", "home"}

\* C4: when no checkout exists at the current location, or the checkout's own
\* configuration lacks gitlab.url, and a global file (system-wide, XDG
\* config-home, home directory) defines it, get_gitlab_url returns a globally
\* configured value, not the default.
C4_GlobalFallback ==
    (/\ last.op = "get_gitlab_url"
     /\ config["repo"] = NoValue
     /\ \E f \in GlobalFiles : config[f] # NoValue) =>
        /\ last.exc = ""
        /\ last.val \in {config[f] : f \in GlobalFiles} \ {NoValue}

\* C4, where it holds: outside a checkout, and in a checkout when the
\* system-wide or the home-directory file defines the value.
C4_GlobalFallbackWithoutXdgOnly ==
    (/\ last.op = "get_gitlab_url"
     /\ config["repo"] = NoValue
     /\ \/ ~isRepo /\ \E f \in GlobalFiles : config[f] # NoValue
        \/ config["system"] # NoValue
        \/ config["home"] # NoValue) =>
        /\ last.exc = ""
        /\ last.val \in {config[f] : f \in GlobalFiles} \ {NoValue}

\* The path segment between the last "/" and the closing .git of a URL.
FinalSegment(u) ==
    LET body == SubSeq(u, 1, Len(u) - 4)
        slashes == {i \in 1..Len(body) : body[i] = "/"}
    IN  SubSeq(body, SetMax(slashes) + 1, Len(body))

\* C5: for a clone URL that ends in /<name>.git, get_project_name_from_url
\* returns <name>, the final path segment before .git, which holds no "/".
C5_FinalSegment ==
    (/\ last.op = "get_project_name_from_url"
     /\ EndsWith(input, STR_dotgit)
     /\ \E i \in 1..(Len(input) - 5) : input[i] = "/") =>
        /\ last.exc = ""
        /\ last.val = FinalSegment(input)
        /\ \A i \in 1..Len(last.val) : last.val[i] # "/"

\* C5, where it holds: a URL with a single "/" that ends in /<name>.git.
C5_FinalSegmentOneSlash ==
    (/\ last.op = "get_project_name_from_url"
     /\ EndsWith(input, STR_dotgit)
     /\ Cardinality({i \in 1..(Len(input) - 5) : input[i] = "/"}) = 1
     /\ Cardinality({i \in 1..Len(input) : input[i] = "/"}) = 1) =>
        /\ last.exc = ""
        /\ last.val = FinalSegment(input)

\* C6: in every state reached without a successful login the handle holds no
\* session, and get_projects fails as it does before the first login; a login
\* that fails signals Unauthorized or AuthenticationError.
C6_NoSessionWithoutLogin ==
    /\ ~authed => (gitlab = None /\ get_projects.exc = "AttributeError")
    /\ (last.op = "login" /\ last.args.token \notin ValidTokens) =>
           last.exc \in {"Unauthorized", "AuthenticationError"}

\* C7: for an existing project, get_project_page(name) returns the project's
\* HTTP clone URL without one trailing .git when it ends in .git, and the URL
\* itself otherwise, and changes neither the server nor the checkout.
C7_PageStripsOneDotGit ==
    [][(/\ last'.op = "get_project_page"
        /\ gitlab \in ValidTokens
        /\ last'.args.name # <<>>
        /\ Count(projects, last'.args.name) > 0) =>
        LET u == FirstNamed(projects, last'.args.name).http_url_to_repo
        IN  /\ last'.exc = ""
            /\ EndsWith(u, STR_dotgit) => last'.val \o STR_dotgit = u
            /\ ~EndsWith(u, STR_dotgit) => last'.val = u
            /\ UNCHANGED <<projects, remotes, pushes>>]_seen

\* C7 witness: the page of a project whose HTTP clone URL ends in .git was
\* returned.
C7_Witness ==
    /\ last.op = "get_project_page"
    /\ last.exc = ""
    /\ last.args.name # <<>>
    /\ \E i \in 1..Len(projects) :
           projects[i].http_url_to_repo = last.val \o STR_dotgit

\* C8: a track call that succeeds has resolved the project, checked that
\* remote_name is not empty, checked that no remote uses it, created the
\* remote at the project's SSH clone URL and pushed the branch, in this order,
\* for no_push TRUE as for no_push FALSE.
C8_TrackOrderAndPush ==
    (last.op = "track" /\ last.exc = "") =>
        /\ SelectSeq(last.trace, IsStep) =
               <<"get_project", "check_remote_name", "get_remote",
                 "create_remote", "push">>
        /\ [remote |-> last.args.remote_name, branch |-> last.args.branch]
               \in pushes
        /\ last.args.remote_name # ""
        /\ remotes[Len(remotes)].name = last.args.remote_name
        /\ \E i \in 1..Len(projects) :
               remotes[Len(remotes)].url = projects[i].ssh_url_to_repo

\* C8 witness: a track call with no_push set succeeded.
C8_Witness ==
    /\ last.op = "track"
    /\ last.exc = ""
    /\ last.args.no_push

\* C9: when the push of track fails, the remote created just before stays;
\* the same call made again signals AlreadyExists without reaching the push;
\* a track call that fails for a project not found or an empty remote_name
\* leaves the remotes as they are.
C9_TrackNotAtomic ==
    [][(last'.op = "track") =>
        /\ last'.exc = "GitCommandError" =>
            /\ Len(remotes') = Len(remotes) + 1
            /\ remotes'[Len(remotes')].name = last'.args.remote_name
            /\ SubSeq(remotes', 1, Len(remotes)) = remotes
        /\ (last.op = "track" /\ last.exc = "GitCommandError"
                /\ last'.args = last.args) =>
            /\ last'.exc = ExcRemoteExists
            /\ \A i \in 1..Len(last'.trace) : last'.trace[i] # "push"
            /\ remotes' = remotes
            /\ pushes' = pushes
        /\ last'.exc \in {"NotFound", ExcInvalidRemote} =>
               remotes' = remotes]_seen

\* C9 witness: the push of a track call failed and its remote is in the
\* checkout, never pushed.
C9_Witness ==
    /\ last.op = "track"
    /\ last.exc = "GitCommandError"
    /\ RemoteUsed(remotes, last.args.remote_name)
    /\ \A b \in Branches :
           [remote |-> last.args.remote_name, branch |-> b] \notin pushes

\* C10: on a client with a working session, in a checkout without a gitlab
\* remote, create_project with the empty name gets NotFound from the remote
\* lookup, fetches no project list, and persists a new project with the empty
\* name, each time it is called.
C10_EmptyNameCreates ==
    [][(/\ last'.op = "create_project"
        /\ last'.args.name = <<>>
        /\ isRepo
        /\ ~RemoteUsed(remotes, "gitlab")
        /\ gitlab \in ValidTokens) =>
        /\ last'.exc = ""
        /\ \A i \in 1..Len(last'.trace) : last'.trace[i] # "owned_projects"
        /\ last'.val.name = <<>>
        /\ projects' = Append(projects, last'.val)]_seen

\* C10 witness: two owned projects have the empty name.
C10_Witness ==
    /\ last.op = "create_project"
    /\ last.exc = ""
    /\ Count(projects, <<>>) >= 2

====
